---- MODULE Spec2Model ----
(***************************************************************************)
(* A model of showman's executer subsystem (src/src/showman/executer.py):  *)
(* PythonExecuter, ShellExecuter and CodeRunner with its output cache.     *)
(*                                                                         *)
(* Strings are TLA+ strings.  A path is the sequence of its components.    *)
(* A Python value is a tagged record (PyNone, PyInt, PyStr).               *)
(***************************************************************************)
EXTENDS Naturals, Sequences, FiniteSets, TLC

\* ------------------------------------------------------------------ bounds
MaxRunners == 2     \* CodeRunner instances constructed in one process
MaxRuns == 2        \* calls of CodeRunner.run in one process
MaxLangs == 2       \* length of the langs list given to run
MaxBlocks == 2      \* blocks a retrieval returns for one label
MaxStmts == 2       \* statements of a block given to PythonExecuter alone
MaxCalls == 2       \* direct calls of update_cache, get_cache_value, save_cache,
                    \* and of a ShellExecuter and its cleanup
MaxSessions == 1    \* ShellExecuter instances constructed directly
MaxWrites == 2      \* writes of the child in answer to one command

\* ------------------------------------------------------------ Python values
PyNone == [t |-> "none"]
PyInt(n) == [t |-> "int", v |-> n]
PyStr(s) == [t |-> "str", s |-> s]

Digit(d) ==
    SubSeq("0123456789", d + 1, d + 1)

RECURSIVE IntStr(_)
IntStr(n) ==
    IF n < 10 THEN Digit(n) ELSE IntStr(n \div 10) \o Digit(n % 10)

\* str(value) of executer.py:184, for the values of the model
Str(v) ==
    CASE v.t = "none" -> "None"
      [] v.t = "int" -> IntStr(v.v)
      [] v.t = "str" -> v.s

\* ------------------------------------------------------------------- paths
WorkspaceDir == <<"W">>

\* Path.resolve(): ".." steps are folded away (<<>> is the filesystem root)
RECURSIVE ResolveParts(_, _)
ResolveParts(todo, done) ==
    IF todo = <<>> THEN done
    ELSE IF Head(todo) = ".."
         THEN ResolveParts(Tail(todo),
                           IF Len(done) > 0 THEN SubSeq(done, 1, Len(done) - 1)
                           ELSE done)
         ELSE ResolveParts(Tail(todo), Append(done, Head(todo)))

Resolve(p) ==
    ResolveParts(p, <<>>)

\* Path.parents: every proper ancestor
Parents(p) ==
    { SubSeq(p, 1, n) : n \in 0..(Len(p) - 1) }

RECURSIVE AsPosix(_)
AsPosix(parts) ==
    IF Len(parts) = 1 THEN parts[1]
    ELSE parts[1] \o "/" \o AsPosix(Tail(parts))

\* a test on the text of the path: it starts with the text of the workspace
InWorkspace_startswith(file) ==
    LET q == Resolve(file)
        w == AsPosix(WorkspaceDir)
    IN /\ Len(q) > Len(WorkspaceDir)
       /\ Len(AsPosix(q)) >= Len(w)
       /\ SubSeq(AsPosix(q), 1, Len(w)) = w

\* the test of executer.py:206
InWorkspace(file) ==
    WorkspaceDir \in Parents(Resolve(file))

\* CodeRunner.get_cache_key, for a file that passes the test
get_cache_key(file) ==
    AsPosix(SubSeq(Resolve(file), Len(WorkspaceDir) + 1, Len(Resolve(file))))

\* -------------------------------------------------------------------- JSON
Char(s, i) ==
    SubSeq(s, i, i)

RECURSIVE JsonEscape(_)
JsonEscape(s) ==
    IF Len(s) = 0 THEN ""
    ELSE LET c == Char(s, 1)
             e == CASE c = "\"" -> "\\\""
                    [] c = "\\" -> "\\\\"
                    [] c = "\n" -> "\\n"
                    [] OTHER -> c
         IN e \o JsonEscape(SubSeq(s, 2, Len(s)))

JsonString(s) ==
    "\"" \o JsonEscape(s) \o "\""

\* a decoder that takes the escape \n for the letter n
RECURSIVE JsonUnescape_letter(_)
JsonUnescape_letter(s) ==
    IF Len(s) = 0 THEN ""
    ELSE IF Char(s, 1) = "\\"
         THEN Char(s, 2) \o JsonUnescape_letter(SubSeq(s, 3, Len(s)))
         ELSE Char(s, 1) \o JsonUnescape_letter(SubSeq(s, 2, Len(s)))

RECURSIVE JsonUnescape(_)
JsonUnescape(s) ==
    IF Len(s) = 0 THEN ""
    ELSE IF Char(s, 1) = "\\"
         THEN LET c == Char(s, 2)
                  d == IF c = "n" THEN "\n" ELSE c
              IN d \o JsonUnescape(SubSeq(s, 3, Len(s)))
         ELSE Char(s, 1) \o JsonUnescape(SubSeq(s, 2, Len(s)))

JsonParseString(t) ==
    JsonUnescape(SubSeq(t, 2, Len(t) - 1))

\* json.dump of the cache: an object is the set of its (key, value) members,
\* an array the sequence of its elements, a string its quoted, escaped text
JsonDumpLabels(entry) ==
    { <<JsonString(l), [i \in 1..Len(entry[l]) |-> JsonString(entry[l][i])]>> :
        l \in DOMAIN entry }

JsonDump(cache) ==
    { <<JsonString(k), JsonDumpLabels(cache[k])>> : k \in DOMAIN cache }

JsonLoadLabels(obj) ==
    [l \in { JsonParseString(m[1]) : m \in obj } |->
        LET m == CHOOSE m \in obj : JsonParseString(m[1]) = l
        IN [i \in 1..Len(m[2]) |-> JsonParseString(m[2][i])]]

JsonLoad(doc) ==
    [k \in { JsonParseString(m[1]) : m \in doc } |->
        LET m == CHOOSE m \in doc : JsonParseString(m[1]) = k
        IN JsonLoadLabels(m[2])]

\* ---------------------------------------------------------- PythonExecuter
\* A statement of a block, by what running it does: whether it is an
\* expression statement (ast.Expr), what it writes to stdout, the value it
\* evaluates to, and the exception it raises ("none", "Exception" for a
\* subclass of Exception, "BaseException" for one that is not, as SystemExit).
Stmt(expr, out, val, exc, msg) ==
    [expr |-> expr, out |-> out, val |-> val, exc |-> exc, msg |-> msg]

StPrint == Stmt(TRUE, "a\n", PyNone, "none", "")          \* print("a")
StLoop == Stmt(FALSE, "c\n", PyNone, "none", "")          \* for ...: print("c")
StAssign == Stmt(FALSE, "", PyNone, "none", "")           \* x = 1
StSum == Stmt(TRUE, "", PyInt(2), "none", "")             \* 1+1
StText == Stmt(TRUE, "", PyStr("hi"), "none", "")         \* "hi"
StCall == Stmt(TRUE, "b\n", PyInt(12), "none", "")        \* f(), prints and returns 12
StDiv == Stmt(TRUE, "", PyNone, "Exception", "division by zero")   \* 1/0
StRaise == Stmt(FALSE, "", PyNone, "Exception", "bad")    \* raise ValueError("bad")
StExit == Stmt(TRUE, "", PyNone, "BaseException", "")     \* exit()

Stmts ==
    {StPrint, StLoop, StAssign, StSum, StText, StCall, StDiv, StRaise, StExit}

\* A block: source text that ast.parse rejects, or the statements it parses to
BadSyntax == [parse |-> "SyntaxError", body |-> <<>>]
Block(body) == [parse |-> "ok", body |-> body]

RECURSIVE SeqsUpTo(_, _)
SeqsUpTo(S, n) ==
    IF n = 0 THEN {<<>>}
    ELSE LET shorter == SeqsUpTo(S, n - 1)
         IN shorter \cup { Append(q, x) : q \in shorter, x \in S }

PyBlocks ==
    {BadSyntax} \cup { Block(b) : b \in SeqsUpTo(Stmts, MaxStmts) }

\* scope_exec: the statements in order, until one raises; what was printed
\* (after what `out` already holds) and the exception, if any
RECURSIVE scope_exec(_, _)
scope_exec(stmts, out) ==
    IF stmts = <<>> THEN [out |-> out, exc |-> "none", msg |-> "", val |-> PyNone]
    ELSE LET s == Head(stmts)
         IN IF s.exc # "none"
            THEN [out |-> out \o s.out, exc |-> s.exc, msg |-> s.msg, val |-> PyNone]
            ELSE scope_exec(Tail(stmts), out \o s.out)

\* scope_eval: the value of one expression, and what evaluating it printed
scope_eval(expr, out) ==
    IF expr.exc # "none"
    THEN [out |-> out \o expr.out, exc |-> expr.exc, msg |-> expr.msg, val |-> PyNone]
    ELSE [out |-> out \o expr.out, exc |-> "none", msg |-> "", val |-> expr.val]

\* no except clause for Exception: it leaves the call
Caught_no_except(r, result) ==
    CASE r.exc = "none" -> [result |-> result, printed |-> r.out, raised |-> FALSE]
      [] OTHER -> [result |-> PyNone, printed |-> r.out, raised |-> TRUE]

\* the except clauses of executer.py:163-166 around a run r that was to
\* return `result`
Caught(r, result) ==
    CASE r.exc = "none" -> [result |-> result, printed |-> r.out, raised |-> FALSE]
      [] r.exc = "Exception" ->
            [result |-> PyStr("Error: " \o r.msg), printed |-> r.out, raised |-> FALSE]
      [] OTHER -> [result |-> PyNone, printed |-> r.out, raised |-> TRUE]

\* PythonExecuter.exec_and_maybe_eval_last_line, with what it printed
exec_and_maybe_eval_last_line(block) ==
    IF block.parse = "SyntaxError"
    THEN [result |-> PyStr("SyntaxError: invalid syntax (<unknown>, line 1)"), printed |-> "",
          raised |-> FALSE]
    ELSE IF block.body = <<>>
    THEN \* parsed_code.body[-1] of an empty list: IndexError, an Exception
         [result |-> PyStr("Error: list index out of range"), printed |-> "",
          raised |-> FALSE]
    ELSE IF block.body[Len(block.body)].expr
    THEN LET rest_of_code == SubSeq(block.body, 1, Len(block.body) - 1)
             last_expr == block.body[Len(block.body)]
             r1 == scope_exec(rest_of_code, "")
             r2 == scope_eval(last_expr, r1.out)
         IN IF r1.exc # "none" THEN Caught(r1, PyNone) ELSE Caught(r2, r2.val)
    ELSE Caught(scope_exec(block.body, ""), PyNone)

\* _resolve_return_value that puts the value before what was printed
resolve_return_value_swapped(stdout, result) ==
    IF result.t = "none" THEN stdout
    ELSE IF stdout = "" THEN result.s
    ELSE result.s \o "\n" \o stdout

\* PythonExecuter._resolve_return_value
resolve_return_value(stdout, result) ==
    IF result.t = "none" THEN stdout
    ELSE IF stdout = "" THEN result.s
    ELSE IF result.t = "str" THEN stdout \o "\n" \o result.s
    ELSE <<stdout, result>>

\* PythonExecuter.__call__: the output, or the exception that escapes
PythonExecuter(code) ==
    LET r == exec_and_maybe_eval_last_line(code)
        result == IF r.result.t # "none" THEN PyStr(Str(r.result)) ELSE r.result
    IN IF r.raised THEN [raised |-> TRUE, out |-> ""]
       ELSE [raised |-> FALSE, out |-> resolve_return_value(r.printed, result)]

\* ------------------------------------------------------------ SpawnWrapper
Whitespace == {" ", "\n", "\t"}

\* str.strip()
RECURSIVE LStrip(_)
LStrip(str) ==
    IF Len(str) > 0 /\ Char(str, 1) \in Whitespace
    THEN LStrip(SubSeq(str, 2, Len(str))) ELSE str

RECURSIVE RStrip(_)
RStrip(str) ==
    IF Len(str) > 0 /\ Char(str, Len(str)) \in Whitespace
    THEN RStrip(SubSeq(str, 1, Len(str) - 1)) ELSE str

Strip(str) == RStrip(LStrip(str))

\* "".join(output)
RECURSIVE Join(_)
Join(output) ==
    IF output = <<>> THEN "" ELSE Head(output) \o Join(Tail(output))

\* one turn of the loop of run_command in which read_nonblocking returned
\* `result` (empty when nothing had arrived): executer.py:48-50
ReadReturned(frame, result, passed) ==
    [frame EXCEPT !.elapsed = @ + passed,
                  !.raw = @ \o result,
                  !.output = IF Strip(result) # "" THEN Append(@, Strip(result)) ELSE @,
                  !.sawEmpty = @ \/ result = "",
                  !.afterEmpty = @ \/ frame.sawEmpty]

\* run_command returns: executer.py:53
Returned(frame) ==
    [frame EXCEPT !.state = "returned", !.result = Join(frame.output)]

\* ----------------------------------------------------------- ShellExecuter
ShellTimeout == 5        \* timeout=5 of ShellExecuter.__init__
RunCommandTimeout == 5   \* timeout=5 of SpawnWrapper.run_command
SpawnTimeout == 30       \* the timeout a spawn is made with when none is given

\* dict.get(key, default)
Get(config, key, default) ==
    IF key \in DOMAIN config THEN config[key] ELSE default

\* a language's entry of the executer configuration: a session read by
\* quiescence (the prompt is empty), with the timeout left to its default
ReplConfig == [command |-> "R --interactive", repl |-> TRUE, prompt |-> ""]

\* the same with a timeout and a preamble
TimedConfig ==
    [command |-> "R --interactive", repl |-> TRUE, prompt |-> "", timeout |-> 2,
     preamble |-> "options(x)"]

\* a session read up to its prompt, with a timeout
PromptConfig ==
    [command |-> "python -i", repl |-> TRUE, prompt |-> ">>> ", timeout |-> 2]

\* an entry without "prompt"
NoPromptConfig == [command |-> "R --interactive", repl |-> TRUE]

\* the steps of _init_repl, after the child was spawned, that can raise for a
\* configuration: cfg["prompt"] of a dict without the key, REPLWrapper(...)
\* waiting for the first prompt, run_command of the preamble
InitReplFailures(config) ==
    IF "prompt" \notin DOMAIN config THEN {"KeyError: prompt"}
    ELSE (IF config.prompt # "" THEN {"REPLWrapper"} ELSE {})
         \cup (IF Get(config, "preamble", "") # "" THEN {"preamble"} ELSE {})

\* whether _init_repl can return for a configuration
InitReplReturns(config) == "prompt" \in DOMAIN config

\* ShellExecuter.__init__ that returned: with "repl" set, _init_repl made the
\* temporary directory and spawned the child.  reader is the class of
\* self.repl.  child, eof and dir are the child process, whether its output
\* was read to the end, and the temporary directory on disk.  owner and run
\* record, for the claims, the CodeRunner that built the instance and the run
\* it was built in; failed and finalized, whether __init__ raised and whether
\* __del__ has run.
ShellExecuter(language, config, owner, run) ==
    [language |-> language, config |-> config,
     timeout |-> Get(config, "timeout", ShellTimeout),
     repl |-> config.repl, build_dir |-> config.repl,
     reader |-> IF ~config.repl THEN "none"
                ELSE IF config.prompt # "" THEN "REPLWrapper" ELSE "SpawnWrapper",
     child |-> IF config.repl THEN "running" ELSE "none", eof |-> FALSE,
     dir |-> IF config.repl THEN "exists" ELSE "none",
     owner |-> owner, run |-> run, failed |-> FALSE, finalized |-> FALSE]

\* the instance __init__ leaves behind when _init_repl raised after the
\* spawn: build_dir is set, repl is still None
ShellExecuter_raised(language, config, owner, run) ==
    [language |-> language, config |-> config,
     timeout |-> Get(config, "timeout", ShellTimeout),
     repl |-> FALSE, build_dir |-> TRUE, reader |-> "none",
     child |-> "running", eof |-> FALSE, dir |-> "exists",
     owner |-> owner, run |-> run, failed |-> TRUE, finalized |-> FALSE]

\* ShellExecuter.cleanup: the instance after it and the exception that left
\* it.  kill(SIGINT) reaches the child; read_nonblocking raises EOF once the
\* child's output was read to the end (sawEof: this read is the one that
\* meets the end, the child having closed its output);
\* rmdir removes an empty directory and raises for any other.
cleanup(e, sawEof) ==
    LET killed == IF e.repl
                  THEN [e EXCEPT !.child = IF @ = "running" THEN "interrupted" ELSE @]
                  ELSE e
        drained == IF e.repl /\ ~e.eof /\ sawEof
                   THEN [killed EXCEPT !.eof = TRUE] ELSE killed
    IN IF e.repl /\ e.eof THEN [e |-> killed, raised |-> "EOF"]
       ELSE IF ~e.build_dir THEN [e |-> drained, raised |-> "none"]
       ELSE IF drained.dir = "exists"
            THEN [e |-> [drained EXCEPT !.dir = "removed"], raised |-> "none"]
       ELSE IF drained.dir = "nonempty"
            THEN [e |-> drained, raised |-> "OSError: Directory not empty"]
       ELSE [e |-> drained, raised |-> "FileNotFoundError"]

\* -------------------------------------------------------------- CodeRunner
EmptyDict == [k \in {} |-> <<>>]

Labels == {"python", "r"}

\* the config argument of CodeRunner.__init__
Configs ==
    { EmptyDict, "r" :> ReplConfig }

\* the documents run is called with: two inside the workspace, one whose
\* path leaves it through ".."
DocTop == <<"W", "doc.typ">>
DocSub == <<"W", "sub", "b.typ">>
DocOut == <<"W", "..", "X", "doc.typ">>
Files == {DocTop, DocSub, DocOut}

\* the blocks a document holds under the python label, in document order
\* (longer documents repeat them), and under the other labels
PyDoc(file) ==
    CASE file = DocTop -> <<Block(<<StPrint>>), Block(<<StSum>>), Block(<<StExit>>)>>
      [] file = DocSub -> <<BadSyntax, Block(<<StDiv>>), Block(<<StPrint>>)>>
      [] file = DocOut -> <<Block(<<StLoop, StSum>>), Block(<<StExit>>)>>
ShellDoc == <<"cat(1)">>
ShellOutputs == {"1"}

DocBlock(file, label, n) ==
    LET doc == IF label = "python" THEN PyDoc(file) ELSE ShellDoc
    IN doc[((n - 1) % Len(doc)) + 1]

\* what get_labeled_blocks can answer: the first blocks of the document, as
\* many as it holds when it is queried
BlockLists(file, label) ==
    { [n \in 1..len |-> DocBlock(file, label, n)] : len \in 0..MaxBlocks }

LangLists == SeqsUpTo(Labels, MaxLangs)

NoFile == [exists |-> FALSE, text |-> {}]

\* CodeRunner.get_cache_value, as its effect on workspace_cache (the copy it
\* returns is dropped by update_cache)
get_cache_value(workspace_cache, file) ==
    IF get_cache_key(file) \in DOMAIN workspace_cache THEN workspace_cache
    ELSE (get_cache_key(file) :> EmptyDict) @@ workspace_cache

\* update_cache that keeps the outputs stored before and appends the new ones
update_cache_merging(workspace_cache, file, label, outputs) ==
    LET cache == get_cache_value(workspace_cache, file)
        key == get_cache_key(file)
        old == IF label \in DOMAIN cache[key] THEN cache[key][label] ELSE <<>>
    IN [cache EXCEPT ![key] = (label :> (old \o outputs)) @@ cache[key]]

\* CodeRunner.update_cache, for a file inside the workspace
update_cache(workspace_cache, file, label, outputs) ==
    LET cache == get_cache_value(workspace_cache, file)
        key == get_cache_key(file)
    IN [cache EXCEPT ![key] = (label :> outputs) @@ cache[key]]

\* CodeRunner.save_cache: the file after it
save_cache(workspace_cache) ==
    [exists |-> TRUE, text |-> JsonDump(workspace_cache)]

VARIABLES
    language_executer_map,  \* CodeRunner.language_executer_map, a class attribute
    executers,              \* every ShellExecuter built so far, by identity
    runners,                \* every CodeRunner built so far: config, workspace_cache,
                            \* and whether a reference to it is still held
    cache_file,             \* <workspace>/.coderunner.json on disk
    pc,                     \* where the call of run stands ("idle": no call)
    cur,                    \* the frame of the call of run
    runs,                   \* calls of run begun
    raised,                 \* the exception that ended the last call, or "none"
    log,                    \* what the current call has done so far, in order
    fileAtStart,            \* cache_file when the current call began
    lastOut,                \* per runner, key and label: the last outputs collected
    savedCache,             \* the workspace_cache last written to cache_file
    calls,                  \* direct calls of the cache methods made
    pyBlock, pyRet,         \* a block handed to PythonExecuter alone, and its return
    rc                      \* the last call made on a ShellExecuter directly

vars ==
    <<language_executer_map, executers, runners, cache_file, pc, cur, runs,
      raised, log, fileAtStart, lastOut, savedCache, calls, pyBlock, pyRet, rc>>

runVars == <<pc, cur, runs, raised, log, fileAtStart, lastOut>>
pyVars == <<pyBlock, pyRet>>
shVars == <<rc>>

PythonEntry == [kind |-> "python", id |-> 0]
NoFrame ==
    [runner |-> 0, typst_file |-> DocTop, langs |-> <<>>, save_cache |-> FALSE,
     i |-> 0, blocks |-> <<>>, outputs |-> <<>>]
Event(ev, lang, ex) == [ev |-> ev, lang |-> lang, ex |-> ex]

\* the frame of a call on a ShellExecuter: the method, the instance, and for
\* run_command its timeout, the time gone by since `now`, what the child has
\* still to write, what was read from it, and the list `output`
Call(kind, id, state, timeout, pending) ==
    [kind |-> kind, id |-> id, state |-> state, timeout |-> timeout,
     elapsed |-> 0, pending |-> pending, raw |-> "", output |-> <<>>,
     result |-> "", sawEmpty |-> FALSE, afterEmpty |-> FALSE]
NoCall == Call("none", 0, "idle", 0, <<>>)

Init ==
    /\ language_executer_map = ("python" :> PythonEntry)
    /\ executers = <<>>
    /\ runners = <<>>
    /\ cache_file = NoFile
    /\ pc = "idle"
    /\ cur = NoFrame
    /\ runs = 0
    /\ raised = "none"
    /\ log = <<>>
    /\ fileAtStart = NoFile
    /\ lastOut = <<>>
    /\ savedCache = EmptyDict
    /\ calls = 0
    /\ pyBlock = BadSyntax
    /\ pyRet = [state |-> "unused", out |-> ""]
    /\ rc = NoCall

\* CodeRunner.__init__
NewRunner(config) ==
    /\ pc = "idle"
    /\ Len(runners) < MaxRunners
    /\ IF ~cache_file.exists
       THEN /\ runners' = Append(runners,
                                 [config |-> config, workspace_cache |-> EmptyDict,
                                  inScope |-> TRUE])
            /\ cache_file' = [exists |-> TRUE, text |-> {}]
            /\ savedCache' = EmptyDict
       ELSE /\ runners' = Append(runners,
                                 [config |-> config,
                                  workspace_cache |-> JsonLoad(cache_file.text),
                                  inScope |-> TRUE])
            /\ UNCHANGED <<cache_file, savedCache>>
    /\ lastOut' = Append(lastOut, EmptyDict)
    /\ UNCHANGED <<language_executer_map, executers, pc, cur, runs, raised, log,
                   fileAtStart, savedCache, calls, pyVars, shVars>>

\* a run that takes the first label at every turn
lang_first == cur.langs[1]

\* `lang` of the loop of executer.py:289
lang == cur.langs[cur.i]

\* a run that does not skip a label without blocks
NoBlocks_never(blocks) == FALSE

\* `if not blocks`, executer.py:291
NoBlocks(blocks) == blocks = <<>>

AfterLabel == IF cur.i + 1 > Len(cur.langs) THEN "save" ELSE "retrieve"

\* an exception leaves run
Abort(kind) ==
    /\ pc' = "done"
    /\ raised' = kind
    /\ log' = Append(log, Event("raise", kind, 0))

\* CodeRunner.run, entered (a str given as langs is the list that holds it,
\* executer.py:287-288)
RunBegin(r, typst_file, langs, save) ==
    /\ pc = "idle"
    /\ runs < MaxRuns
    /\ runners[r].inScope
    /\ runs' = runs + 1
    /\ cur' = [runner |-> r, typst_file |-> typst_file, langs |-> langs,
               save_cache |-> save, i |-> 1, blocks |-> <<>>, outputs |-> <<>>]
    /\ pc' = IF Len(langs) = 0 THEN "save" ELSE "retrieve"
    /\ raised' = "none"
    /\ log' = <<>>
    /\ fileAtStart' = cache_file
    /\ UNCHANGED <<language_executer_map, executers, runners, cache_file, lastOut,
                   savedCache, calls, pyVars, shVars>>

\* run, executer.py:290-292: get_labeled_blocks answers with the blocks the
\* document holds under the label, or typst fails
Retrieve ==
    /\ pc = "retrieve"
    /\ \/ \E blocks \in BlockLists(cur.typst_file, lang) :
            /\ log' = Append(log, Event("retrieve", lang, Len(blocks)))
            /\ IF NoBlocks(blocks)
               THEN /\ cur' = [cur EXCEPT !.i = cur.i + 1, !.blocks = <<>>]
                    /\ pc' = AfterLabel
               ELSE /\ cur' = [cur EXCEPT !.blocks = blocks, !.outputs = <<>>]
                    /\ pc' = "resolve"
            /\ raised' = raised
       \/ /\ Abort("CalledProcessError")
          /\ cur' = cur
    /\ UNCHANGED <<language_executer_map, executers, runners, cache_file, runs,
                   fileAtStart, lastOut, savedCache, calls, pyVars, shVars>>

\* exec_blocks_and_capture_outputs, executer.py:274-278; when ShellExecuter
\* raises, nothing is assigned to the map and the exception leaves run
Resolve_executer ==
    /\ pc = "resolve"
    /\ LET config == runners[cur.runner].config
       IN IF lang \notin DOMAIN language_executer_map /\ lang \notin DOMAIN config
          THEN /\ Abort("ValueError: not supported")
               /\ UNCHANGED <<language_executer_map, executers>>
          ELSE IF lang \notin DOMAIN language_executer_map
          THEN \/ /\ InitReplReturns(config[lang])
                  /\ executers' = Append(executers,
                          ShellExecuter(lang, config[lang], cur.runner, runs))
                  /\ language_executer_map' =
                          (lang :> [kind |-> "shell", id |-> Len(executers) + 1])
                          @@ language_executer_map
                  /\ log' = Append(log, Event("construct", lang, Len(executers) + 1))
                  /\ pc' = IF cur.blocks = <<>> THEN "update" ELSE "exec"
                  /\ raised' = raised
               \/ \E step \in InitReplFailures(config[lang]) :
                     /\ executers' = Append(executers,
                             ShellExecuter_raised(lang, config[lang], cur.runner, runs))
                     /\ Abort(step)
                     /\ UNCHANGED language_executer_map
          ELSE /\ pc' = IF cur.blocks = <<>> THEN "update" ELSE "exec"
               /\ UNCHANGED <<language_executer_map, executers, log, raised>>
    /\ UNCHANGED <<runners, cache_file, cur, runs, fileAtStart, lastOut, savedCache,
                   calls, pyVars, shVars>>

\* the outputs are complete: recorded as the last ones collected for the label
Collected(outputs) ==
    IF InWorkspace(cur.typst_file)
    THEN [lastOut EXCEPT ![cur.runner] =
            (<<get_cache_key(cur.typst_file), lang>> :> outputs) @@ @]
    ELSE lastOut

\* one turn of the loop of executer.py:279-283: the next block goes to the
\* label's executer, and its output is appended
ExecBlock ==
    /\ pc = "exec"
    /\ LET block == cur.blocks[Len(cur.outputs) + 1]
           executer == language_executer_map[lang]
           last == Len(cur.outputs) + 1 = Len(cur.blocks)
       IN \/ /\ executer.kind = "python"
             /\ LET ret == PythonExecuter(block)
                IN IF ret.raised
                   THEN /\ Abort("BaseException")
                        /\ UNCHANGED <<cur, lastOut>>
                   ELSE /\ cur' = [cur EXCEPT !.outputs = Append(@, ret.out)]
                        /\ log' = Append(log, Event("exec", lang, executer.id))
                        /\ pc' = IF last THEN "update" ELSE "exec"
                        /\ lastOut' = IF last THEN Collected(Append(cur.outputs, ret.out))
                                       ELSE lastOut
                        /\ raised' = raised
          \/ /\ executer.kind = "shell"
             /\ \E out \in ShellOutputs :
                   /\ cur' = [cur EXCEPT !.outputs = Append(@, out)]
                   /\ log' = Append(log, Event("exec", lang, executer.id))
                   /\ pc' = IF last THEN "update" ELSE "exec"
                   /\ lastOut' = IF last THEN Collected(Append(cur.outputs, out))
                                  ELSE lastOut
                   /\ raised' = raised
          \/ /\ executer.kind = "shell"
             /\ Abort("CalledProcessError")
             /\ UNCHANGED <<cur, lastOut>>
    /\ UNCHANGED <<language_executer_map, executers, runners, cache_file, runs,
                   fileAtStart, savedCache, calls, pyVars, shVars>>

\* how many outputs the cache holds for the file and label about to be updated
PriorLen ==
    LET cache == runners[cur.runner].workspace_cache
        key == get_cache_key(cur.typst_file)
    IN IF key \in DOMAIN cache /\ lang \in DOMAIN cache[key]
       THEN Len(cache[key][lang]) ELSE 0

\* run, executer.py:294: update_cache, where get_cache_key raises for a file
\* outside the workspace
Update ==
    /\ pc = "update"
    /\ IF ~InWorkspace(cur.typst_file)
       THEN /\ Abort("ValueError: not in workspace")
            /\ UNCHANGED <<runners, cur>>
       ELSE /\ runners' = [runners EXCEPT ![cur.runner].workspace_cache =
                             update_cache(@, cur.typst_file, lang, cur.outputs)]
            /\ log' = Append(log, Event("update", lang, PriorLen))
            /\ cur' = [cur EXCEPT !.i = cur.i + 1]
            /\ pc' = AfterLabel
            /\ raised' = raised
    /\ UNCHANGED <<language_executer_map, executers, cache_file, runs, fileAtStart,
                   lastOut, savedCache, calls, pyVars, shVars>>

\* a run that saves whatever save_cache says
Save_always ==
    /\ pc = "save"
    /\ cache_file' = save_cache(runners[cur.runner].workspace_cache)
    /\ savedCache' = runners[cur.runner].workspace_cache
    /\ log' = Append(log, Event("save", "", 0))
    /\ pc' = "done"
    /\ UNCHANGED <<language_executer_map, executers, runners, cur, runs, raised,
                   fileAtStart, lastOut, calls, pyVars, shVars>>

\* run, executer.py:295-296
Save ==
    /\ pc = "save"
    /\ IF cur.save_cache
       THEN /\ cache_file' = save_cache(runners[cur.runner].workspace_cache)
            /\ savedCache' = runners[cur.runner].workspace_cache
            /\ log' = Append(log, Event("save", "", 0))
       ELSE UNCHANGED <<cache_file, savedCache, log>>
    /\ pc' = "done"
    /\ UNCHANGED <<language_executer_map, executers, runners, cur, runs, raised,
                   fileAtStart, lastOut, calls, pyVars, shVars>>

\* the call of run is over: its frame is gone
Return ==
    /\ pc = "done"
    /\ pc' = "idle"
    /\ cur' = NoFrame
    /\ raised' = "none"
    /\ log' = <<>>
    /\ fileAtStart' = NoFile
    /\ UNCHANGED <<language_executer_map, executers, runners, cache_file, runs,
                   lastOut, savedCache, calls, pyVars, shVars>>

Next ==
    \/ \E config \in Configs : NewRunner(config)
    \/ \E r \in 1..Len(runners), f \in Files, ls \in LangLists, save \in BOOLEAN :
          RunBegin(r, f, ls, save)
    \/ Retrieve
    \/ Resolve_executer
    \/ ExecBlock
    \/ Update
    \/ Save
    \/ Return

Spec == Init /\ [][Next]_vars

\* ------------------------------------------------ the lifetime of a session
\* the configurations of the runners whose sessions are followed to their end
LifeConfigs ==
    { "r" :> TimedConfig, "r" :> PromptConfig, "r" :> NoPromptConfig }

\* no reference to the instance is left: it is not a value of the class-level
\* map (the exception that carried a half-built one is gone with the run)
Unreferenced(id) ==
    \A l \in DOMAIN language_executer_map : language_executer_map[l].id # id

\* the last reference to a CodeRunner is dropped; its class, and the map of
\* the class, stay
DropRunner(r) ==
    /\ pc = "idle"
    /\ runners[r].inScope
    /\ runners' = [runners EXCEPT ![r].inScope = FALSE]
    /\ UNCHANGED <<language_executer_map, executers, cache_file, runVars, savedCache,
                   calls, pyVars, shVars>>

\* the child of a session writes a file into its working directory
ChildWrites(id) ==
    /\ executers[id].child = "running"
    /\ executers[id].dir = "exists"
    /\ executers' = [executers EXCEPT ![id].dir = "nonempty"]
    /\ UNCHANGED <<language_executer_map, runners, cache_file, runVars, savedCache,
                   calls, pyVars, shVars>>

\* ShellExecuter.__del__, run when no reference to the instance is left; what
\* cleanup raises in it is dropped
Finalize(id, sawEof) ==
    /\ pc \in {"idle", "exited"}
    /\ ~executers[id].finalized
    /\ Unreferenced(id)
    /\ executers' = [executers EXCEPT ![id] =
                        [cleanup(@, sawEof).e EXCEPT !.finalized = TRUE]]
    /\ UNCHANGED <<language_executer_map, runners, cache_file, runVars, savedCache,
                   calls, pyVars, shVars>>

\* the interpreter exits: every runner and the class with its map go
Exit ==
    /\ pc = "idle"
    /\ pc' = "exited"
    /\ runners' = [r \in 1..Len(runners) |-> [runners[r] EXCEPT !.inScope = FALSE]]
    /\ language_executer_map' = EmptyDict
    /\ UNCHANGED <<executers, cache_file, cur, runs, raised, log, fileAtStart,
                   lastOut, savedCache, calls, pyVars, shVars>>

NextLife ==
    \/ \E config \in LifeConfigs : NewRunner(config)
    \/ \E r \in 1..Len(runners), ls \in LangLists : RunBegin(r, DocTop, ls, FALSE)
    \/ Retrieve
    \/ Resolve_executer
    \/ ExecBlock
    \/ Update
    \/ Save
    \/ Return
    \/ \E r \in 1..Len(runners) : DropRunner(r)
    \/ \E id \in 1..Len(executers) : ChildWrites(id)
    \/ \E id \in 1..Len(executers), sawEof \in BOOLEAN : Finalize(id, sawEof)
    \/ Exit

SpecLife == Init /\ [][NextLife]_vars

\* --------------------------------------------- ShellExecuter used directly
ShellConfigs == {ReplConfig, TimedConfig, PromptConfig}

\* what a child writes in answer to a command: the first writes of these
ChildOutput == <<"1\n", " b", "cd">>
ChildScripts ==
    { SubSeq(ChildOutput, 1, n) : n \in 0..MaxWrites }

\* ShellExecuter(language, config): __init__, with the preamble sent by
\* _init_repl under self.timeout
ShNew(config) ==
    /\ pc = "idle"
    /\ rc.state # "loop"
    /\ Len(executers) < MaxSessions
    /\ \/ /\ InitReplReturns(config)
          /\ executers' = Append(executers, ShellExecuter("r", config, 0, 0))
          /\ rc' = IF Get(config, "preamble", "") # ""
                   THEN Call("preamble", Len(executers) + 1, "returned",
                             Get(config, "timeout", ShellTimeout), <<>>)
                   ELSE NoCall
          /\ raised' = "none"
       \/ \E step \in InitReplFailures(config) :
             /\ executers' = Append(executers, ShellExecuter_raised("r", config, 0, 0))
             /\ rc' = NoCall
             /\ raised' = step
    /\ UNCHANGED <<language_executer_map, runners, cache_file, pc, cur, runs, log,
                   fileAtStart, lastOut, savedCache, calls, pyVars>>

\* ShellExecuter.__call__ on a session, executer.py:98-108 (no transforms are
\* configured): self.repl.run_command(code) is entered without a timeout, so
\* SpawnWrapper.run_command runs with its default and REPLWrapper.run_command
\* waits for the prompt as long as the spawn's own timeout says
ShCall(id, script) ==
    /\ pc = "idle"
    /\ rc.state # "loop"
    /\ calls < MaxCalls
    /\ executers[id].repl
    /\ calls' = calls + 1
    /\ IF executers[id].child = "exited"
       THEN /\ rc' = Call("block", id, "raised", 0, <<>>)
            /\ raised' = "BrokenPipeError"
       ELSE IF executers[id].reader = "SpawnWrapper"
       THEN /\ rc' = Call("block", id, "loop", RunCommandTimeout, script)
            /\ raised' = "none"
       ELSE \/ /\ rc' = [Call("block", id, "returned", SpawnTimeout, <<>>)
                            EXCEPT !.raw = Join(script), !.result = Join(script)]
               /\ raised' = "none"
            \/ /\ rc' = Call("block", id, "raised", SpawnTimeout, script)
               /\ raised' = "TIMEOUT"
    /\ UNCHANGED <<language_executer_map, executers, runners, cache_file, pc, cur,
                   runs, log, fileAtStart, lastOut, savedCache, pyVars>>

\* SpawnWrapper.run_command, one test of the loop's condition and the turn
\* that follows, executer.py:46-53.  read_nonblocking returns what has
\* arrived, an empty string when nothing has, and raises EOF once the
\* child's output was read to its end.
RunCommandTurn ==
    /\ rc.state = "loop"
    /\ IF ~(rc.elapsed < rc.timeout)
       THEN /\ rc' = Returned(rc)
            /\ UNCHANGED executers
       ELSE \/ /\ rc.pending # <<>>
               /\ \E passed \in {0, 1} :
                     rc' = [ReadReturned(rc, Head(rc.pending), passed)
                               EXCEPT !.pending = Tail(@)]
               /\ UNCHANGED executers
            \/ /\ ~executers[rc.id].eof
               /\ rc' = ReadReturned(rc, "", 1)
               /\ executers' =
                     IF executers[rc.id].child = "exited" /\ rc.pending = <<>>
                     THEN [executers EXCEPT ![rc.id].eof = TRUE] ELSE executers
            \/ /\ executers[rc.id].eof
               /\ rc' = Returned([rc EXCEPT !.afterEmpty = @ \/ rc.sawEmpty])
               /\ UNCHANGED executers
    /\ UNCHANGED <<language_executer_map, runners, cache_file, runVars, savedCache,
                   calls, pyVars>>

\* executer.cleanup()
ShCleanup(id, sawEof) ==
    /\ pc = "idle"
    /\ rc.state # "loop"
    /\ calls < MaxCalls
    /\ calls' = calls + 1
    /\ executers' = [executers EXCEPT ![id] = cleanup(@, sawEof).e]
    /\ raised' = cleanup(executers[id], sawEof).raised
    /\ rc' = Call("cleanup", id, IF raised' = "none" THEN "returned" ELSE "raised",
                  0, <<>>)
    /\ UNCHANGED <<language_executer_map, runners, cache_file, pc, cur, runs, log,
                   fileAtStart, lastOut, savedCache, pyVars>>

\* the child of a session exits and its output closes
ChildExits(id) ==
    /\ executers[id].child \in {"running", "interrupted"}
    /\ rc.state # "loop" \/ rc.id # id \/ rc.pending = <<>>
    /\ executers' = [executers EXCEPT ![id].child = "exited"]
    /\ UNCHANGED <<language_executer_map, runners, cache_file, runVars, savedCache,
                   calls, pyVars, shVars>>

NextShell ==
    \/ \E config \in ShellConfigs : ShNew(config)
    \/ \E id \in 1..Len(executers), script \in ChildScripts : ShCall(id, script)
    \/ RunCommandTurn
    \/ \E id \in 1..Len(executers), sawEof \in BOOLEAN : ShCleanup(id, sawEof)
    \/ \E id \in 1..Len(executers) : ChildWrites(id)
    \/ \E id \in 1..Len(executers) : ChildExits(id)

SpecShell == Init /\ [][NextShell]_vars

\* ------------------------------------------- PythonExecuter called directly
InitPy ==
    /\ language_executer_map = ("python" :> PythonEntry)
    /\ executers = <<>>
    /\ runners = <<>>
    /\ cache_file = NoFile
    /\ pc = "idle"
    /\ cur = NoFrame
    /\ runs = 0
    /\ raised = "none"
    /\ log = <<>>
    /\ fileAtStart = NoFile
    /\ lastOut = <<>>
    /\ savedCache = EmptyDict
    /\ calls = 0
    /\ pyBlock \in PyBlocks
    /\ pyRet = [state |-> "ready", out |-> ""]
    /\ rc = NoCall

\* PythonExecuter()(code)
PyCall ==
    /\ pyRet.state = "ready"
    /\ LET ret == PythonExecuter(pyBlock)
       IN pyRet' = [state |-> IF ret.raised THEN "raised" ELSE "returned",
                    out |-> ret.out]
    /\ UNCHANGED <<language_executer_map, executers, runners, cache_file, runVars,
                   savedCache, calls, pyBlock, shVars>>

NextPy == PyCall

SpecPy == InitPy /\ [][NextPy]_vars

\* ------------------------------------------ the cache methods called directly
\* the strings handed to update_cache: a newline, quotes and a backslash
OutStrings == <<"a\n", "\"q\"\\n">>
OutputLists ==
    { [n \in 1..len |-> OutStrings[((n - 1) % Len(OutStrings)) + 1]] :
        len \in 0..MaxBlocks }

\* the cache an earlier process may have left in the workspace
OldCache == "old.typ" :> ("python" :> <<"x\n">>)

InitCache ==
    /\ language_executer_map = ("python" :> PythonEntry)
    /\ executers = <<>>
    /\ runners = <<>>
    /\ \/ cache_file = NoFile /\ savedCache = EmptyDict
       \/ cache_file = save_cache(OldCache) /\ savedCache = OldCache
    /\ pc = "idle"
    /\ cur = NoFrame
    /\ runs = 0
    /\ raised = "none"
    /\ log = <<>>
    /\ fileAtStart = NoFile
    /\ lastOut = <<>>
    /\ calls = 0
    /\ pyBlock = BadSyntax
    /\ pyRet = [state |-> "unused", out |-> ""]
    /\ rc = NoCall

\* runner.update_cache(file, label, outputs)
CallUpdate(r, file, label, outputs) ==
    /\ pc = "idle"
    /\ calls < MaxCalls
    /\ calls' = calls + 1
    /\ IF ~InWorkspace(file)
       THEN /\ raised' = "ValueError: not in workspace"
            /\ UNCHANGED <<runners, lastOut>>
       ELSE /\ raised' = "none"
            /\ runners' = [runners EXCEPT ![r].workspace_cache =
                             update_cache(@, file, label, outputs)]
            /\ lastOut' = [lastOut EXCEPT ![r] =
                             (<<get_cache_key(file), label>> :> outputs) @@ @]
    /\ UNCHANGED <<language_executer_map, executers, cache_file, pc, cur, runs, log,
                   fileAtStart, savedCache, pyVars, shVars>>

\* runner.get_cache_value(file)
CallGetValue(r, file) ==
    /\ pc = "idle"
    /\ calls < MaxCalls
    /\ calls' = calls + 1
    /\ IF ~InWorkspace(file)
       THEN /\ raised' = "ValueError: not in workspace"
            /\ UNCHANGED runners
       ELSE /\ raised' = "none"
            /\ runners' = [runners EXCEPT ![r].workspace_cache =
                             get_cache_value(@, file)]
    /\ UNCHANGED <<language_executer_map, executers, cache_file, pc, cur, runs, log,
                   fileAtStart, lastOut, savedCache, pyVars, shVars>>

\* runner.save_cache()
CallSave(r) ==
    /\ pc = "idle"
    /\ calls < MaxCalls
    /\ calls' = calls + 1
    /\ cache_file' = save_cache(runners[r].workspace_cache)
    /\ savedCache' = runners[r].workspace_cache
    /\ raised' = "none"
    /\ UNCHANGED <<language_executer_map, executers, runners, pc, cur, runs, log,
                   fileAtStart, lastOut, pyVars, shVars>>

NextCache ==
    \/ \E config \in Configs : NewRunner(config)
    \/ \E r \in 1..Len(runners), f \in Files, l \in Labels, outputs \in OutputLists :
          CallUpdate(r, f, l, outputs)
    \/ \E r \in 1..Len(runners), f \in Files : CallGetValue(r, f)
    \/ \E r \in 1..Len(runners) : CallSave(r)

SpecCache == InitCache /\ [][NextCache]_vars

\* ------------------------------------------------- the paths of the cache
\* paths given to the cache methods: the documents, the workspace itself, a
\* sibling whose name starts like the workspace's, a path that leaves the
\* workspace and one that comes back into it through "..", and the root
Paths ==
    Files \cup { WorkspaceDir, <<"Wx", "doc.typ">>, <<"W", "sub", "..", "..", "doc.typ">>,
                 <<"W", "sub", "..", "doc.typ">>, <<>> }

Methods == {"get_cache_key", "get_cache_value", "update_cache"}

\* a call of one of the three methods that take a path, executer.py:204-223;
\* cur keeps the runner and the path of the last call
PathCall(r, method, file, outputs) ==
    /\ pc = "idle"
    /\ calls < MaxCalls
    /\ calls' = calls + 1
    /\ cur' = [NoFrame EXCEPT !.runner = r, !.typst_file = file]
    /\ IF ~InWorkspace(file)
       THEN /\ raised' = "ValueError: not in workspace"
            /\ UNCHANGED <<runners, lastOut>>
       ELSE /\ raised' = "none"
            /\ runners' =
                  CASE method = "get_cache_key" -> runners
                    [] method = "get_cache_value" ->
                          [runners EXCEPT ![r].workspace_cache = get_cache_value(@, file)]
                    [] method = "update_cache" ->
                          [runners EXCEPT ![r].workspace_cache =
                              update_cache(@, file, "python", outputs)]
            /\ lastOut' =
                  IF method = "update_cache"
                  THEN [lastOut EXCEPT ![r] =
                          (<<get_cache_key(file), "python">> :> outputs) @@ @]
                  ELSE lastOut
    /\ UNCHANGED <<language_executer_map, executers, cache_file, pc, runs, log,
                   fileAtStart, savedCache, pyVars, shVars>>

NextPaths ==
    \/ NewRunner(EmptyDict)
    \/ \E r \in 1..Len(runners), method \in Methods, f \in Paths,
          outputs \in OutputLists : PathCall(r, method, f, outputs)

SpecPaths == InitCache /\ [][NextPaths]_vars

\* ================================================================== claims
Running == pc \in {"retrieve", "resolve", "exec", "update", "save"}
Events(ev) == { n \in 1..Len(log) : log[n].ev = ev }
Cache(r) == runners[r].workspace_cache
HasEntry(cache, key, label) ==
    key \in DOMAIN cache /\ label \in DOMAIN cache[key]
HasPrefix(str, pre) ==
    Len(str) >= Len(pre) /\ SubSeq(str, 1, Len(pre)) = pre
HasSuffix(str, suf) ==
    Len(str) >= Len(suf) /\ SubSeq(str, Len(str) - Len(suf) + 1, Len(str)) = suf

\* ----------------------------------------------------------------------- C1
\* A step that changes a runner's workspace_cache is the update_cache of the
\* run: it stores exactly the collected outputs under the file's key and the
\* label, and keeps every other label of that key and every other key.
C1_Frame ==
    \A r \in 1..Len(runners) :
        runners'[r].workspace_cache # Cache(r) =>
            /\ pc = "update" /\ r = cur.runner /\ InWorkspace(cur.typst_file)
            /\ LET old == Cache(r)
                   new == runners'[r].workspace_cache
                   key == get_cache_key(cur.typst_file)
               IN /\ DOMAIN new = DOMAIN old \cup {key}
                  /\ new[key][lang] = cur.outputs
                  /\ \A k \in DOMAIN new :
                        DOMAIN new[k] =
                            (IF k \in DOMAIN old THEN DOMAIN old[k] ELSE {})
                            \cup (IF k = key THEN {lang} ELSE {})
                  /\ \A k \in DOMAIN old : \A l \in DOMAIN old[k] :
                        (k # key \/ l # lang) => new[k][l] = old[k][l]

\* Outside the moment between collecting a label's outputs and storing them,
\* the entry of a label is the outputs of the last run that collected some.
C1_Last ==
    \A r \in 1..Len(runners) : \A kl \in DOMAIN lastOut[r] :
        \/ /\ pc = "update" /\ r = cur.runner
           /\ kl = <<get_cache_key(cur.typst_file), lang>>
        \/ /\ HasEntry(Cache(r), kl[1], kl[2])
           /\ Cache(r)[kl[1]][kl[2]] = lastOut[r][kl]

\* C1: update_cache replaces the whole sequence stored for (path, label) with
\* the outputs and leaves every other label and path of the cache unchanged;
\* after any runs, a label's entry is the outputs of the last run in which
\* the label had blocks.
C1_UpdateReplaces == [][C1_Frame]_vars /\ []C1_Last

\* a run has replaced a two-output entry by a one-output one, next to an
\* entry of another label of the same document
C1_Witness ==
    /\ pc = "done" /\ raised = "none"
    /\ \E n \in Events("update") :
          /\ log[n].ex = 2
          /\ LET doc == Cache(cur.runner)[get_cache_key(cur.typst_file)]
             IN /\ Len(doc[log[n].lang]) = 1
                /\ \E other \in DOMAIN doc : other # log[n].lang /\ doc[other] # <<>>

\* ----------------------------------------------------------------------- C2
\* C2: when a run on a document outside the workspace root ends with the path
\* error, raising it is all the run did: no retrieval, no execution and no
\* cache update came before it.
C2_RejectedFirst ==
    (pc = "done" /\ raised = "ValueError: not in workspace") =>
        \A n \in 1..Len(log) : log[n].ev = "raise"

\* ----------------------------------------------------------------------- C3
\* C3: during run the cache file changes only in the one save_cache made after
\* the last label, and only with save_cache true; a run that ends with an
\* error, or with save_cache false, leaves the file as it was when it began.
C3_SavedOnlyAtEnd ==
    /\ Running => cache_file = fileAtStart /\ Events("save") = {}
    /\ (pc = "done" /\ (raised # "none" \/ ~cur.save_cache)) =>
            cache_file = fileAtStart /\ Events("save") = {}
    /\ (pc = "done" /\ raised = "none" /\ cur.save_cache) =>
            /\ Events("save") = {Len(log)}
            /\ cur.i = Len(cur.langs) + 1
            /\ cache_file = save_cache(Cache(cur.runner))

\* a saving run stored a label's outputs and then ended with an error: the
\* file is as before, and does not hold what the memory holds
C3_Witness ==
    /\ pc = "done" /\ raised # "none" /\ cur.save_cache
    /\ Events("update") # {}
    /\ cache_file = fileAtStart
    /\ JsonLoad(cache_file.text) # Cache(cur.runner)

\* ----------------------------------------------------------------------- C4
\* C4: a CodeRunner built on a workspace whose cache file a save_cache wrote
\* starts with the cache that was saved: every entry, the updated one too,
\* equals the saving runner's entry at the time of the save.
C4_RoundTrip ==
    [][ (Len(runners') > Len(runners) /\ cache_file.exists) =>
            runners'[Len(runners')].workspace_cache = savedCache ]_vars

\* a fresh runner holds both strings, with their newline, quotes and
\* backslash, that update_cache and save_cache of the first one stored, next
\* to the entry the file held before
C4_Witness ==
    /\ Len(runners) = 2
    /\ HasEntry(Cache(2), "doc.typ", "r")
    /\ Cache(2)["doc.typ"]["r"] = <<"a\n", "\"q\"\\n">>
    /\ HasEntry(Cache(2), "old.typ", "python")
    /\ Cache(2)["old.typ"]["python"] = <<"x\n">>
    /\ <<"doc.typ", "r">> \in DOMAIN lastOut[1]
    /\ DOMAIN lastOut[2] = {}

\* ----------------------------------------------------------------------- C5
\* C5: a label whose retrieval returns no block is skipped: the step changes
\* neither a cache nor the file, resolves and builds no executer, and leaves
\* run at the next label.
C5_SkipsEmpty ==
    [][ (pc = "retrieve" /\ Len(log') = Len(log) + 1
         /\ log'[Len(log')] = Event("retrieve", lang, 0)) =>
            /\ runners' = runners
            /\ cache_file' = cache_file
            /\ language_executer_map' = language_executer_map
            /\ executers' = executers
            /\ cur'.i = cur.i + 1
            /\ pc' = AfterLabel
            /\ raised' = raised ]_vars

\* a run went past a label that had no blocks and an entry from before: the
\* entry is still there
C5_Witness ==
    /\ pc = "done" /\ raised = "none" /\ InWorkspace(cur.typst_file)
    /\ \E n \in Events("retrieve") :
          /\ log[n].ex = 0
          /\ HasEntry(Cache(cur.runner), get_cache_key(cur.typst_file), log[n].lang)
          /\ Events("update") = {}
\* ----------------------------------------------------------------------- C6
\* a label the runner of the current run can execute by the claim's rule:
\* the built-in one, or one its configuration names
Supported(label) ==
    label = "python" \/ label \in DOMAIN runners[cur.runner].config

\* C6: a run never executes a block of a label that has neither a built-in
\* executer nor an entry in the runner's configuration, and a run that met
\* blocks of such a label ends with the unsupported-language error.
C6_UnsupportedFails ==
    pc # "idle" =>
        /\ \A n \in Events("exec") : Supported(log[n].lang)
        /\ \A n \in Events("retrieve") :
              (log[n].ex > 0 /\ ~Supported(log[n].lang) /\ pc = "done") =>
                  raised = "ValueError: not supported"

\* ----------------------------------------------------------------------- C7
\* the first statement of a block that raises, or 0
RECURSIVE FirstRaise(_, _)
FirstRaise(body, n) ==
    IF n > Len(body) THEN 0
    ELSE IF body[n].exc # "none" THEN n ELSE FirstRaise(body, n + 1)

FailsAtRuntime(block) ==
    /\ block.parse = "ok"
    /\ FirstRaise(block.body, 1) # 0
    /\ block.body[FirstRaise(block.body, 1)].exc = "Exception"

\* C7: under the python label a block with a syntax error gives an output that
\* starts with the syntax-error marker, a block that raises an error gives one
\* that ends with the error's description; neither ends the run: the label's
\* remaining blocks run and its outputs, one per block, go on to the cache.
C7_ErrorsAreOutputs ==
    /\ (pc \in {"exec", "update"} /\ lang = "python") =>
          \A j \in 1..Len(cur.outputs) :
              /\ cur.blocks[j].parse = "SyntaxError" =>
                    HasPrefix(cur.outputs[j], "SyntaxError: ")
              /\ FailsAtRuntime(cur.blocks[j]) =>
                    HasSuffix(cur.outputs[j], "Error: " \o
                        cur.blocks[j].body[FirstRaise(cur.blocks[j].body, 1)].msg)
    /\ (pc = "update" /\ lang = "python") => Len(cur.outputs) = Len(cur.blocks)
    /\ (pc = "done" /\ raised = "BaseException") =>
          LET block == cur.blocks[Len(cur.outputs) + 1]
          IN block.parse = "ok" /\ ~FailsAtRuntime(block)

\* a run ended without an error and stored, for a block with a syntax error
\* and the block after it, which divides by zero, the two descriptions
C7_Witness ==
    /\ pc = "done" /\ raised = "none"
    /\ HasEntry(Cache(cur.runner), "sub/b.typ", "python")
    /\ Cache(cur.runner)["sub/b.typ"]["python"] =
          <<"SyntaxError: invalid syntax (<unknown>, line 1)", "Error: division by zero">>
    /\ Events("update") # {}

\* ----------------------------------------------------------------------- C8
RECURSIVE Printed(_)
Printed(body) ==
    IF body = <<>> THEN "" ELSE Head(body).out \o Printed(Tail(body))

RunsClean(block) ==
    block.parse = "ok" /\ FirstRaise(block.body, 1) = 0

EndsInExpr(block) ==
    block.parse = "ok" /\ block.body # <<>> /\ block.body[Len(block.body)].expr

LastValue(block) == block.body[Len(block.body)].val

\* C8 as stated: for a block that ends in an expression (and raises nothing)
\* the call returns the stringified value alone when nothing was printed, and
\* otherwise what was printed, a newline and the stringified value.
C8_StdoutThenValue ==
    (pyRet.state # "ready" /\ EndsInExpr(pyBlock) /\ RunsClean(pyBlock)) =>
        /\ pyRet.state = "returned"
        /\ pyRet.out = IF Printed(pyBlock.body) = "" THEN Str(LastValue(pyBlock))
                       ELSE Printed(pyBlock.body) \o "\n" \o Str(LastValue(pyBlock))

\* C8, amended: that holds when the expression's value is not None; when it is
\* None the call returns what was printed and nothing else.
C8_StdoutThenValueUnlessNone ==
    (pyRet.state # "ready" /\ EndsInExpr(pyBlock) /\ RunsClean(pyBlock)) =>
        /\ pyRet.state = "returned"
        /\ pyRet.out =
              IF LastValue(pyBlock).t = "none" THEN Printed(pyBlock.body)
              ELSE IF Printed(pyBlock.body) = "" THEN Str(LastValue(pyBlock))
              ELSE Printed(pyBlock.body) \o "\n" \o Str(LastValue(pyBlock))

\* the call returned for a block that prints and then ends in an expression
\* whose value is a number of two digits
C8_Witness ==
    /\ pyRet.state = "returned"
    /\ pyBlock = Block(<<StPrint, StCall>>)
    /\ pyRet.out = "a\nb\n\n12"

\* ----------------------------------------------------------------------- C9
\* C9: for a block that does not end in an expression, the block without
\* statements too (and raising nothing), the call returns exactly what was
\* printed.
C9_StdoutOnly ==
    (pyRet.state # "ready" /\ pyBlock.parse = "ok" /\ ~EndsInExpr(pyBlock)
     /\ RunsClean(pyBlock)) =>
        /\ pyRet.state = "returned"
        /\ pyRet.out = Printed(pyBlock.body)

\* ---------------------------------------------------------------------- C10
\* C10: every block a run gives to an interactive session goes to a session
\* that this run built, from the configuration of the runner it runs on, for
\* that label; no session serves two labels.
C10_SessionPerRun ==
    pc # "idle" =>
        \A n \in Events("exec") :
            (log[n].ex # 0 /\ executers[log[n].ex].repl) =>
                /\ executers[log[n].ex].run = runs
                /\ executers[log[n].ex].owner = cur.runner
                /\ executers[log[n].ex].language = log[n].lang
                /\ \A m \in Events("exec") :
                      log[m].ex = log[n].ex => log[m].lang = log[n].lang

\* ---------------------------------------------------------------------- C11
\* a session: an instance whose construction returned with a child spawned
Session(id) == executers[id].repl /\ ~executers[id].failed

\* the finalizer of the instance is still to run
AwaitsFinalizer(id) == Unreferenced(id) /\ ~executers[id].finalized

TornDown(id) ==
    executers[id].child # "running" /\ executers[id].dir = "removed"

\* C11: once the run that built a session is over and the CodeRunner that
\* built it is out of scope, and no finalizer of the session is still to run,
\* the session is torn down: its child was interrupted and its temporary
\* directory is removed.
C11_TornDownAfterRun ==
    \A id \in 1..Len(executers) :
        (/\ Session(id)
         /\ pc \in {"idle", "exited"}
         /\ ~runners[executers[id].owner].inScope
         /\ ~AwaitsFinalizer(id)) => TornDown(id)

\* ---------------------------------------------------------------------- C12
\* C12: cleanup called on a session that is already torn down (its child
\* stopped, its temporary directory removed) raises nothing and leaves the
\* instance and what it owns as they were.
C12_CleanupIdempotent ==
    [][ \A id \in 1..Len(executers) :
            (/\ calls' = calls + 1 /\ rc'.kind = "cleanup" /\ rc'.id = id
             /\ executers[id].repl /\ TornDown(id)) =>
                raised' = "none" /\ executers' = executers ]_vars

\* ---------------------------------------------------------------------- C13
\* the turn of the loop over the labels in which event n was made
Turn(n) == Cardinality({ m \in Events("retrieve") : m <= n })

\* C13: what a run does, it does for the labels in the order of the list, one
\* label at a time: the blocks of a label are the first blocks of the
\* document, each goes in that order to the one executer of the label, and
\* the list stored for the label holds one output per block, the i-th that of
\* the i-th block.
C13_InListOrder ==
    pc \in {"retrieve", "resolve", "exec", "update", "save", "done"} =>
        /\ \A n \in 1..Len(log) :
              log[n].ev \in {"retrieve", "construct", "exec", "update"} =>
                  /\ Turn(n) \in 1..Len(cur.langs)
                  /\ log[n].lang = cur.langs[Turn(n)]
        /\ \A n \in Events("exec") : \A m \in Events("exec") :
              Turn(n) = Turn(m) => log[n].ex = log[m].ex
        /\ \A n \in Events("update") :
              /\ \E m \in Events("retrieve") :
                    /\ Turn(m) = Turn(n) /\ m < n
                    /\ Cardinality({ x \in Events("exec") : Turn(x) = Turn(n) }) = log[m].ex
                    /\ \A x \in Events("exec") : Turn(x) = Turn(n) => m < x /\ x < n
        /\ pc \in {"exec", "update"} =>
              /\ Len(cur.outputs) <= Len(cur.blocks)
              /\ \A j \in 1..Len(cur.blocks) :
                    cur.blocks[j] = DocBlock(cur.typst_file, cur.langs[cur.i], j)
              /\ \A j \in 1..Len(cur.outputs) :
                    IF cur.langs[cur.i] = "python"
                    THEN cur.outputs[j] = PythonExecuter(cur.blocks[j]).out
                    ELSE cur.outputs[j] \in ShellOutputs
        /\ (Len(log) > 0 /\ log[Len(log)].ev = "update") =>
              /\ Len(cur.outputs) = Len(cur.blocks)
              /\ Cache(cur.runner)[get_cache_key(cur.typst_file)][log[Len(log)].lang]
                    = cur.outputs

\* a run over the python label and then the r label has stored, for the two
\* python blocks of the document, their two outputs in the order of the blocks
C13_Witness ==
    /\ pc = "done" /\ raised = "none"
    /\ cur.langs = <<"python", "r">> /\ cur.typst_file = DocTop
    /\ Cardinality(Events("update")) = 2
    /\ Cardinality(Events("exec")) = 3
    /\ Cache(cur.runner)["doc.typ"]["python"] = <<"a\n", "2">>

\* ---------------------------------------------------------------------- C14
\* inside the workspace root: below it, once "." and ".." are resolved
Inside(path) ==
    LET q == Resolve(path)
    IN Len(q) > Len(WorkspaceDir) /\ SubSeq(q, 1, Len(WorkspaceDir)) = WorkspaceDir

\* C14: a call of get_cache_key, get_cache_value or update_cache with a path
\* that is not inside the workspace root raises the path error and changes no
\* runner's cache; with a path inside it, it raises nothing.
C14_OutsideRejected ==
    [][ calls' = calls + 1 =>
            IF Inside(cur'.typst_file)
            THEN raised' = "none"
            ELSE raised' = "ValueError: not in workspace" /\ runners' = runners ]_vars

\* a second call, for a sibling of the workspace whose name starts like it,
\* raised and left the entry of the first call alone
C14_Witness ==
    /\ calls = 2
    /\ cur.typst_file = <<"Wx", "doc.typ">>
    /\ raised = "ValueError: not in workspace"
    /\ HasEntry(Cache(cur.runner), "doc.typ", "python")
    /\ Cache(cur.runner)["doc.typ"]["python"] # <<>>

\* ---------------------------------------------------------------------- C15
\* C15: a read of a user block's output on a session, by either reader, runs
\* under the timeout of the language's configuration, the value the preamble
\* is read under.
C15_ReadsUnderConfiguredTimeout ==
    /\ (rc.kind = "block" /\ (rc.state \in {"loop", "returned"} \/ raised = "TIMEOUT")) =>
          rc.timeout = Get(executers[rc.id].config, "timeout", ShellTimeout)
    /\ rc.kind = "preamble" =>
          rc.timeout = Get(executers[rc.id].config, "timeout", ShellTimeout)

\* ---------------------------------------------------------------------- C16
\* C16: run_command of the quiescence-based reader makes no further read once
\* a read delivered no data, and returns, in order and unaltered, everything
\* that its reads took from the child.
C16_ReturnsAllOutput ==
    (rc.kind = "block" /\ executers[rc.id].reader = "SpawnWrapper") =>
        /\ ~rc.afterEmpty
        /\ rc.state = "returned" => rc.result = rc.raw

\* ---------------------------------------------------------------------- C17
\* C17: after a construction that raised past the spawn, and once the
\* half-built instance was finalized, its child is not running, its temporary
\* directory is not on disk, and the instance is not registered for a label.
C17_NothingLeftByFailedInit ==
    \A id \in 1..Len(executers) :
        (executers[id].failed /\ executers[id].finalized) =>
            /\ executers[id].child # "running"
            /\ executers[id].dir \notin {"exists", "nonempty"}
            /\ Unreferenced(id)

====
